---- MODULE Spec2Model ----
(***************************************************************************)
(* Pocket Relay plugin installer: the patch manager (bink.rs), the plugin  *)
(* installer and release lookup (plugin.rs, github.rs) and the iced        *)
(* application state machine (iced.rs).                                    *)
(*                                                                         *)
(* Spec         the application: user events, background tasks running one *)
(*              file or network operation per step, result messages        *)
(* SpecFiles    a file operation of bink.rs or plugin.rs called on a game  *)
(*              directory, and is_patched called after it                  *)
(* SpecReleases get_latest_beta_plugin_release on bounded release lists    *)
(***************************************************************************)
EXTENDS Naturals, Sequences, FiniteSets, Bags, TLC

VARIABLES
    state,                  \* App.state: AppState::Initial / AppState::Active
    plugin_details_state,   \* App.plugin_details_state
    tasks,                  \* bag of the tasks spawned by Task::perform whose result
                            \* message has not been delivered yet
    panicked,               \* the update function panicked: the process is gone
    dispatched,             \* tasks spawned so far: domain operations, file pickers
    session,                \* number of AppStateActive values created so far
    fs,                     \* the game directories on disk
    github,                 \* what the release API answers
    call                    \* SpecFiles / SpecReleases: the last call, its outcome,
                            \* and the call before it

vars == <<state, plugin_details_state, tasks, panicked, dispatched, session,
          fs, github, call>>

(***************************************************************************)
(* Bounds                                                                  *)
(***************************************************************************)
\* tasks the user's presses may spawn in a run: file pickers and domain
\* operations (patch/plugin add/remove)
MaxTasks == 4
\* length of the release list answered by the API (SpecReleases)
MaxReleases == 3

(***************************************************************************)
(* Bytes, digests, directories                                             *)
(***************************************************************************)
BINK_UNPATCHED == "bytes:resources/binkw23.dll"
BINK_PATCHED == "bytes:resources/binkw32.dll"
OFFICIAL_BINKW32_HASH == "a4ddcf8d78eac388cbc85155ef37a251a77f50de79d0b975ab9bb65bd0375698"
ASSET_NAME == "pocket-relay-plugin.asi"

\* a path that holds no file
Absent == "absent"
\* what a file holds after a write that failed after truncating it
Torn == "bytes:torn"
\* some other binkw32.dll (another mod's, another game version's)
OtherDll == "bytes:other.dll"
\* a plugin file that was put there by hand
OtherAsi == "bytes:other.asi"

\* SHA-256 of a file's bytes: distinct bytes have distinct digests, and the
\* embedded unpatched dll is the official binkw32.dll
Sha256(bytes) ==
    CASE bytes = BINK_UNPATCHED -> OFFICIAL_BINKW32_HASH
      [] bytes = BINK_PATCHED -> "sha256:resources/binkw32.dll"
      [] bytes = Torn -> "sha256:torn"
      [] bytes = OtherDll -> "sha256:other.dll"
      [] OTHER -> "sha256:other"

\* the bytes the asset host serves at a download URL
download_latest_release(url) ==
    CASE url = "url:a" -> "bytes:asset-a"
      [] url = "url:b" -> "bytes:asset-b"
      [] OTHER -> "bytes:asset-c"

Dirs == {"game1", "game2"}

\* a game directory: binkw32.dll, binkw23.dll, ASI/pocket-relay-plugin.asi
DirState(b32, b23, asi) == [binkw32 |-> b32, binkw23 |-> b23, plugin |-> asi]

\* outcome of one file system or network call
IO == {"ok", "err", "torn"}

\* tokio::fs::write: creates or truncates the file, then writes all the bytes;
\* it can fail before touching the file ("err") or after truncating it ("torn")
FsWrite(ds, file, bytes, io) ==
    CASE io = "ok" -> [ds EXCEPT ![file] = bytes]
      [] io = "torn" -> [ds EXCEPT ![file] = Torn]
      [] OTHER -> ds

\* tokio::fs::remove_file: fails when the file is absent, or for any other reason
RemoveOk(ds, file, io) == ds[file] # Absent /\ io = "ok"

FsRemove(ds, file, io) ==
    IF RemoveOk(ds, file, io) THEN [ds EXCEPT ![file] = Absent] ELSE ds

\* Path::exists
Exists(ds, file) == ds[file] # Absent

(***************************************************************************)
(* Results and the log of calls an operation made                          *)
(***************************************************************************)
\* anyhow::Result<()> and anyhow::Result<bool>: val is the bool of Ok(bool),
\* TRUE for Ok(()); err is the outermost context string
Ok(v) == [ok |-> TRUE, val |-> v, err |-> ""]
Err(e) == [ok |-> FALSE, val |-> FALSE, err |-> e]
\* the operation has not returned yet
Pending == [ok |-> FALSE, val |-> FALSE, err |-> "pending"]

Ev(op, target, data, io) == [op |-> op, target |-> target, data |-> data, io |-> io]

\* the outcome of one step of an operation: where it continues, its local
\* variable, its return value, the directory, and the call it made
StepOut(pc, bytes, res, ds, ev) ==
    [pc |-> pc, bytes |-> bytes, res |-> res, ds |-> ds, ev |-> ev]

(***************************************************************************)
(* bink.rs                                                                 *)
(***************************************************************************)
IsPatchedCompareMutant(digest) == digest = OFFICIAL_BINKW32_HASH

\* let is_patched = digest != OFFICIAL_BINKW32_HASH
IsPatchedCompare(digest) == digest # OFFICIAL_BINKW32_HASH

\* is_patched: hash binkw32.dll (an error when it is absent or the read fails)
\* and compare the digest
is_patched_step(pc, ds, io) ==
    IF Exists(ds, "binkw32") /\ io = "ok"
    THEN StepOut("done", "", Ok(IsPatchedCompare(Sha256(ds.binkw32))), ds,
                 <<Ev("hash", "binkw32", "", "ok")>>)
    ELSE StepOut("done", "", Err("failed to get binkw32.dll hash"), ds,
                 <<Ev("hash", "binkw32", "", "err")>>)

ApplyPatchBackupBytesMutant == BINK_PATCHED

\* what apply_patch writes to binkw23.dll: the embedded unpatched dll,
\* whatever binkw32.dll held before
ApplyPatchBackupBytes == BINK_UNPATCHED

ApplyPatchAfterWriteMutant(io) == "write_unpatched"

\* the ? after the first write: return on failure, go on otherwise
ApplyPatchAfterWrite(io) == IF io = "ok" THEN "write_unpatched" ELSE "done"

\* apply_patch: write the patched dll over binkw32.dll, then the unpatched dll
\* to binkw23.dll
apply_patch_step(pc, ds, io) ==
    CASE pc = "write_patched" ->
            StepOut(ApplyPatchAfterWrite(io), "",
                    IF ApplyPatchAfterWrite(io) = "done"
                    THEN Err("failed to write patch") ELSE Pending,
                    FsWrite(ds, "binkw32", BINK_PATCHED, io),
                    <<Ev("write", "binkw32", BINK_PATCHED, io)>>)
      [] OTHER ->
            StepOut("done", "",
                    IF io = "ok" THEN Ok(TRUE) ELSE Err("failed to write unpatched"),
                    FsWrite(ds, "binkw23", ApplyPatchBackupBytes, io),
                    <<Ev("write", "binkw23", ApplyPatchBackupBytes, io)>>)

RemovePatchAfterWriteMutant(ds) == "remove_backup"

\* if binkw23_path.exists() { remove_file }: a missing backup is skipped
RemovePatchAfterWrite(ds) == IF Exists(ds, "binkw23") THEN "remove_backup" ELSE "done"

\* remove_patch: write the unpatched dll over binkw32.dll, then delete
\* binkw23.dll when it exists
remove_patch_step(pc, ds, io) ==
    CASE pc = "write_unpatched" ->
            StepOut(IF io = "ok" THEN "check_backup" ELSE "done", "",
                    IF io = "ok" THEN Pending ELSE Err("failed to write unpatched"),
                    FsWrite(ds, "binkw32", BINK_UNPATCHED, io),
                    <<Ev("write", "binkw32", BINK_UNPATCHED, io)>>)
      [] pc = "check_backup" ->
            StepOut(RemovePatchAfterWrite(ds), "",
                    IF RemovePatchAfterWrite(ds) = "done" THEN Ok(TRUE) ELSE Pending,
                    ds, <<Ev("exists", "binkw23", "", "ok")>>)
      [] OTHER ->
            StepOut("done", "",
                    IF RemoveOk(ds, "binkw23", io) THEN Ok(TRUE)
                    ELSE Err("failed to remove patched"),
                    FsRemove(ds, "binkw23", io),
                    <<Ev("remove", "binkw23", "",
                         IF RemoveOk(ds, "binkw23", io) THEN "ok" ELSE "err")>>)

(***************************************************************************)
(* github.rs, plugin.rs                                                    *)
(***************************************************************************)
\* GitHubReleaseAsset, GitHubRelease (html_url and name are never read)
Asset(name, url) == [name |-> name, browser_download_url |-> url]

Release(tag, published, pre, assets) ==
    [tag_name |-> tag, published_at |-> published, prerelease |-> pre, assets |-> assets]

\* byte-wise comparison of two strings, a string being the sequence of its
\* bytes: "lt", "eq" or "gt" (Ord for String)
RECURSIVE StrCmp(_, _)
StrCmp(a, b) ==
    CASE a = <<>> /\ b = <<>> -> "eq"
      [] a = <<>> -> "lt"
      [] b = <<>> -> "gt"
      [] Head(a) < Head(b) -> "lt"
      [] Head(a) > Head(b) -> "gt"
      [] OTHER -> StrCmp(Tail(a), Tail(b))

SelectSeqPre(releases) == SelectSeq(releases, LAMBDA r : r.prerelease)


\* releases.retain(|value| value.prerelease)
RetainPrerelease(releases) == SelectSeqPre(releases)

ComesBeforeMutant(a, b) == StrCmp(a.published_at, b.published_at) = "lt"

\* the sort's comparator, a.published_at.cmp(&b.published_at).reverse(),
\* answers Less: a is placed before b
ComesBefore(a, b) == StrCmp(a.published_at, b.published_at) = "gt"

\* one element placed into a sorted sequence, behind the elements it does not
\* come before (the sort is stable)
RECURSIVE InsertSorted(_, _)
InsertSorted(r, sorted) ==
    IF sorted = <<>> THEN <<r>>
    ELSE IF ComesBefore(r, Head(sorted)) THEN <<r>> \o sorted
    ELSE <<Head(sorted)>> \o InsertSorted(r, Tail(sorted))

\* releases.sort_by(..): a stable sort
RECURSIVE SortByPublished(_)
SortByPublished(releases) ==
    IF releases = <<>> THEN <<>>
    ELSE InsertSorted(releases[Len(releases)],
                      SortByPublished(SubSeq(releases, 1, Len(releases) - 1)))

\* get_latest_beta_plugin_release on the list the API answered:
\* retain the prereleases, sort, releases.first().cloned()
get_latest_beta_plugin_release(releases) ==
    LET sorted == SortByPublished(RetainPrerelease(releases))
    IN  IF sorted = <<>> THEN <<>> ELSE <<sorted[1]>>

AssetNameMatchesMutant(name) == name \in {ASSET_NAME, "pocket-relay-plugin.asi.sig"}

\* asset.name == ASSET_NAME
AssetNameMatches(name) == name = ASSET_NAME

\* release.assets.iter().find(..): the first match, <<>> for None
RECURSIVE FindAsset(_)
FindAsset(assets) ==
    IF assets = <<>> THEN <<>>
    ELSE IF AssetNameMatches(Head(assets).name) THEN <<Head(assets)>>
    ELSE FindAsset(Tail(assets))

\* apply_plugin: find the asset, download it, write it to the plugin path.
\* (Building the HTTP client touches neither the network nor the disk and is
\* taken to succeed.)
apply_plugin_step(pc, bytes, release, ds, io) ==
    CASE pc = "download" ->
            IF FindAsset(release.assets) = <<>>
            THEN StepOut("done", "", Err("missing plugin asset file"), ds, <<>>)
            ELSE LET url == FindAsset(release.assets)[1].browser_download_url
                 IN  IF io = "ok"
                     THEN StepOut("write", download_latest_release(url), Pending, ds,
                                  <<Ev("download", url, download_latest_release(url), "ok")>>)
                     ELSE StepOut("done", "", Err("failed to download client plugin"), ds,
                                  <<Ev("download", url, "", "err")>>)
      [] OTHER ->
            StepOut("done", "",
                    IF io = "ok" THEN Ok(TRUE) ELSE Err("saving plugin file"),
                    FsWrite(ds, "plugin", bytes, io),
                    <<Ev("write", "plugin", bytes, io)>>)

RemovePluginResultMutant(removed) == Ok(TRUE)

\* tokio::fs::remove_file(plugin_path).await?; Ok(())
RemovePluginResult(removed) == IF removed THEN Ok(TRUE) ELSE Err("remove_file failed")

\* remove_plugin: delete the plugin file
remove_plugin_step(pc, ds, io) ==
    StepOut("done", "", RemovePluginResult(RemoveOk(ds, "plugin", io)),
            FsRemove(ds, "plugin", io),
            <<Ev("remove", "plugin", "", IF RemoveOk(ds, "plugin", io) THEN "ok" ELSE "err")>>)

(***************************************************************************)
(* Operations as programs: first position, one step, a whole run           *)
(***************************************************************************)
FirstPc(kind) ==
    CASE kind = "is_patched" -> "hash"
      [] kind = "apply_patch" -> "write_patched"
      [] kind = "remove_patch" -> "write_unpatched"
      [] kind = "apply_plugin" -> "download"
      [] OTHER -> "remove"

OpStep(kind, pc, bytes, release, ds, io) ==
    CASE kind = "is_patched" -> is_patched_step(pc, ds, io)
      [] kind = "apply_patch" -> apply_patch_step(pc, ds, io)
      [] kind = "remove_patch" -> remove_patch_step(pc, ds, io)
      [] kind = "apply_plugin" -> apply_plugin_step(pc, bytes, release, ds, io)
      [] OTHER -> remove_plugin_step(pc, ds, io)

\* an operation run to its end with no other operation in between; oracle[i] is
\* the outcome of its i-th call
RECURSIVE RunFrom(_, _, _, _, _)
RunFrom(kind, release, oracle, st, i) ==
    IF st.pc = "done" THEN st
    ELSE LET r == OpStep(kind, st.pc, st.bytes, release, st.ds, oracle[i])
         IN  RunFrom(kind, release, oracle,
                     [pc |-> r.pc, bytes |-> r.bytes, res |-> r.res, ds |-> r.ds,
                      log |-> st.log \o r.ev], i + 1)

Run(kind, release, oracle, ds) ==
    RunFrom(kind, release, oracle,
            [pc |-> FirstPc(kind), bytes |-> "", res |-> Pending, ds |-> ds, log |-> <<>>], 1)

(***************************************************************************)
(* iced.rs: the values of the application state                            *)
(***************************************************************************)
NoRelease == Release("", <<>>, FALSE, <<>>)

\* ReleaseType::Stable(release) / ReleaseType::Beta(release)
ReleaseType(type, release) == [type |-> type, release |-> release]

\* AlterPatchState, AlterPluginState: Initial, Loading, Success, Error(err)
Alter(tag, err) == [tag |-> tag, err |-> err]

\* AppState::Initial(AppStateInitial { pick_file_error }); "" is None
AppInitial(error) ==
    [tag |-> "Initial", pick_file_error |-> error, patched |-> FALSE, plugin |-> FALSE,
     path |-> "", alter_plugin_state |-> Alter("Initial", ""),
     alter_patch_state |-> Alter("Initial", ""), session |-> 0]

\* AppState::Active(AppStateActive { .. }); session numbers the AppStateActive
\* values in the order they were created
AppActive(patched, plugin, path, alter_plugin, alter_patch, n) ==
    [tag |-> "Active", pick_file_error |-> "", patched |-> patched, plugin |-> plugin,
     path |-> path, alter_plugin_state |-> alter_plugin,
     alter_patch_state |-> alter_patch, session |-> n]

\* PluginDetailsState: Loading, Error(err), Ready(PluginDetails)
DetailsLoading == [tag |-> "Loading", err |-> "", options |-> <<>>, selected |-> <<>>]
DetailsError(err) == [tag |-> "Error", err |-> err, options |-> <<>>, selected |-> <<>>]
DetailsReady(options, selected) ==
    [tag |-> "Ready", err |-> "", options |-> options, selected |-> <<selected>>]

\* the release API's answers: /releases/latest and /releases
Github(latest, list) == [latest |-> latest, list |-> list]

(***************************************************************************)
(* SpecFiles: one file operation called on a game directory, and is_patched *)
(* called after it                                                         *)
(***************************************************************************)
\* longest asset list of a release handed to apply_plugin
MaxAssets == 2

AssetNames == {ASSET_NAME, "pocket-relay-plugin.asi.sig"}
Urls == {"url:a", "url:b"}
Assets == {Asset(n, u) : n \in AssetNames, u \in Urls}
AssetLists == UNION {[1..n -> Assets] : n \in 0..MaxAssets}

\* the directory the operations are called on
FileDir == "game1"

\* the outcomes of the calls an operation makes, in order: a write can fail
\* before or after truncating the file, the other calls succeed or fail
ReadIO == {"ok", "err"}

Oracles(kind) ==
    CASE kind = "is_patched" -> {<<a>> : a \in ReadIO}
      [] kind = "apply_patch" -> {<<a, b>> : a \in IO, b \in IO}
      [] kind = "remove_patch" -> {<<a, "ok", c>> : a \in IO, c \in ReadIO}
      [] kind = "apply_plugin" -> {<<a, b>> : a \in ReadIO, b \in IO}
      [] OTHER -> {<<a>> : a \in ReadIO}

\* directories a user may point the installer at
Bink32Contents == {Absent, BINK_UNPATCHED, BINK_PATCHED, OtherDll, Torn}
Bink23Contents == {Absent, BINK_UNPATCHED, OtherDll, Torn}
PluginContents == {Absent, OtherAsi, Torn}
DirStates ==
    {DirState(a, b, c) : a \in Bink32Contents, b \in Bink23Contents, c \in PluginContents}

NoCall ==
    [op |-> "none", release |-> NoRelease, before |-> DirState(Absent, Absent, Absent),
     res |-> Pending, log |-> <<>>, list |-> <<>>, found |-> <<>>,
     prev |-> [op |-> "none", ok |-> FALSE]]

AppInit ==
    /\ state = AppInitial("")
    /\ plugin_details_state = DetailsLoading
    /\ tasks = EmptyBag
    /\ panicked = FALSE
    /\ dispatched = [ops |-> 0, picks |-> 0]
    /\ session = 0

AppUnchanged == UNCHANGED <<state, plugin_details_state, tasks, panicked, dispatched, session>>

InitFiles ==
    /\ AppInit
    /\ fs \in [Dirs -> DirStates]
    /\ \A d \in Dirs \ {FileDir} : fs[d] = DirState(BINK_UNPATCHED, Absent, Absent)
    /\ github = Github(NoRelease, <<>>)
    /\ call = NoCall

Called(kind, release, oracle) ==
    LET out == Run(kind, release, oracle, fs[FileDir])
    IN  /\ fs' = [fs EXCEPT ![FileDir] = out.ds]
        /\ call' = [op |-> kind, release |-> release, before |-> fs[FileDir],
                    res |-> out.res, log |-> out.log, list |-> <<>>, found |-> <<>>,
                    prev |-> [op |-> call.op, ok |-> call.res.ok]]
        /\ UNCHANGED github
        /\ AppUnchanged

CallIsPatched ==
    \E oracle \in Oracles("is_patched") : Called("is_patched", NoRelease, oracle)

CallApplyPatch ==
    call.op = "none" /\ \E oracle \in Oracles("apply_patch") : Called("apply_patch", NoRelease, oracle)

CallRemovePatch ==
    call.op = "none" /\ \E oracle \in Oracles("remove_patch") : Called("remove_patch", NoRelease, oracle)

CallApplyPlugin ==
    call.op = "none" /\ \E oracle \in Oracles("apply_plugin"), assets \in AssetLists :
        Called("apply_plugin", Release("v1", <<1>>, FALSE, assets), oracle)

CallRemovePlugin ==
    call.op = "none" /\ \E oracle \in Oracles("remove_plugin") : Called("remove_plugin", NoRelease, oracle)

NextFiles ==
    \/ CallIsPatched
    \/ CallApplyPatch
    \/ CallRemovePatch
    \/ CallApplyPlugin
    \/ CallRemovePlugin

SpecFiles == InitFiles /\ [][NextFiles]_vars

(***************************************************************************)
(* SpecReleases: the latest prerelease of a release list                   *)
(***************************************************************************)
\* published_at strings, as byte sequences
Stamps == {<<1>>, <<1, 2>>, <<2>>, <<2, 1>>}
Tags == {"v1", "v2"}
ReleaseUniverse == {Release(t, p, b, <<>>) : t \in Tags, p \in Stamps, b \in BOOLEAN}
ReleaseLists == UNION {[1..n -> ReleaseUniverse] : n \in 0..MaxReleases}

InitReleases ==
    /\ AppInit
    /\ fs = [d \in Dirs |-> DirState(BINK_UNPATCHED, Absent, Absent)]
    /\ \E list \in ReleaseLists : github = Github(NoRelease, list)
    /\ call = NoCall

CallLatestBeta ==
    /\ call.op = "none"
    /\ call' = [call EXCEPT !.op = "get_latest_beta_plugin_release",
                            !.list = github.list,
                            !.res = Ok(TRUE),
                            !.found = get_latest_beta_plugin_release(github.list)]
    /\ UNCHANGED <<fs, github>>
    /\ AppUnchanged

NextReleases == CallLatestBeta

SpecReleases == InitReleases /\ [][NextReleases]_vars

(***************************************************************************)
(* Spec: the application                                                   *)
(***************************************************************************)
\* what the release API answers in a run
GithubSamples ==
    { Github(Release("v1", <<1>>, FALSE, <<Asset(ASSET_NAME, "url:a")>>),
             << Release("v1", <<1>>, FALSE, <<Asset(ASSET_NAME, "url:a")>>),
                Release("v2-beta", <<2>>, TRUE, <<Asset(ASSET_NAME, "url:b")>>) >>),
      Github(Release("v1", <<1>>, FALSE, <<Asset("pocket-relay-plugin.asi.sig", "url:b")>>),
             << Release("v1", <<1>>, FALSE, <<Asset("pocket-relay-plugin.asi.sig", "url:b")>>) >>) }

\* the game directories of a run: an untouched game, and a patched game with
\* the plugin installed
AppDirs ==
    [d \in Dirs |-> IF d = "game1" THEN DirState(BINK_UNPATCHED, Absent, Absent)
                    ELSE DirState(BINK_PATCHED, BINK_UNPATCHED, OtherAsi)]

\* the bag of tasks: with one task more, with one task less, with one task
\* moved on
Put(bag, t) == bag (+) SetToBag({t})
Take(t) == tasks (-) SetToBag({t})
Advance(t, moved) == Put(Take(t), moved)

DomainKinds == {"apply_patch", "remove_patch", "apply_plugin", "remove_plugin"}
PatchKinds == {"apply_patch", "remove_patch"}
PluginKinds == {"apply_plugin", "remove_plugin"}

\* a future handed to Task::perform; session is the AppStateActive it was
\* spawned from
NewTask(kind, pc, path, release) ==
    [kind |-> kind, pc |-> pc, path |-> path,
     release |-> release, bytes |-> "", res |-> Pending, session |-> state.session,
     patched |-> FALSE, plugin |-> FALSE, options |-> <<>>, selected |-> <<>>]

\* run_with(|| (Default::default(), plugin_details_task()))
Init ==
    /\ state = AppInitial("")
    /\ plugin_details_state = DetailsLoading
    /\ tasks = SetToBag({[kind |-> "get_plugin_details", pc |-> "fetch", path |-> "",
                          release |-> NoRelease, bytes |-> "", res |-> Pending,
                          session |-> 0, patched |-> FALSE, plugin |-> FALSE,
                          options |-> <<>>, selected |-> <<>>]})
    /\ panicked = FALSE
    /\ dispatched = [ops |-> 0, picks |-> 0]
    /\ session = 0
    /\ fs = AppDirs
    /\ github \in GithubSamples
    /\ call = NoCall

Env == <<fs, github, call>>

\* panic!(..) in update: the process ends, and its tasks with it
Panic ==
    /\ panicked' = TRUE
    /\ tasks' = EmptyBag
    /\ UNCHANGED <<state, plugin_details_state, dispatched, session>>

\* ---- view: the messages the widgets on screen can send ----

\* view_patch_section: Apply Patch / Remove Patch / Retry, nothing while Loading
view_patch_section(s) ==
    CASE s.alter_patch_state.tag = "Loading" -> {}
      [] s.patched -> {"Remove"}
      [] OTHER -> {"Add"}

\* view_add_plugin: the Add Plugin button and the combo box, once Ready
view_add_plugin(details) ==
    IF details.tag = "Ready" THEN {"Add", "SelectType"} ELSE {}

\* view_plugin_section
view_plugin_section(s, details) ==
    CASE s.alter_plugin_state.tag = "Loading" -> {}
      [] s.plugin -> {"Remove"}
      [] s.alter_plugin_state.tag = "Error" -> {"Add"}
      [] OTHER -> view_add_plugin(details)

\* ---- update ----

LoadingMutant == Alter("Initial", "")

\* AlterPatchState::Loading, AlterPluginState::Loading
Loading == Alter("Loading", "")

\* update_game: rest is the tasks still running once the message was taken
update_game(msg, t, rest) ==
    CASE msg = "PickGamePath" ->
            /\ tasks' = Put(rest, NewTask("pick_game_state", "dialog", "", NoRelease))
            /\ dispatched' = [dispatched EXCEPT !.picks = @ + 1]
            /\ UNCHANGED <<state, plugin_details_state, panicked, session>>
      [] msg = "PickedGameResult" ->
            /\ tasks' = rest
            /\ IF t.res.ok
               THEN IF t.res.val
                    THEN /\ state' = AppActive(t.patched, t.plugin, t.path,
                                               Alter("Initial", ""), Alter("Initial", ""),
                                               session + 1)
                         /\ session' = session + 1
                    ELSE /\ state' = AppInitial("")
                         /\ UNCHANGED session
               ELSE /\ state' = IF state.tag = "Initial"
                                THEN [state EXCEPT !.pick_file_error = t.res.err]
                                ELSE state
                    /\ UNCHANGED session
            /\ UNCHANGED <<plugin_details_state, panicked, dispatched>>
      [] OTHER ->
            \* ClearGamePath
            /\ state' = AppInitial("")
            /\ tasks' = rest
            /\ UNCHANGED <<plugin_details_state, panicked, dispatched, session>>

PatchAddedMutant(s, res) ==
    IF res.ok
    THEN [s EXCEPT !.alter_patch_state = Alter("Success", ""), !.patched = TRUE,
                   !.alter_plugin_state = Alter("Success", "")]
    ELSE [s EXCEPT !.alter_patch_state = Alter("Error", res.err)]

\* PatchMessage::Added(result) on the Active state s
PatchAdded(s, res) ==
    IF res.ok
    THEN [s EXCEPT !.alter_patch_state = Alter("Success", ""), !.patched = TRUE]
    ELSE [s EXCEPT !.alter_patch_state = Alter("Error", res.err)]

\* update_patch
update_patch(msg, t, rest) ==
    IF state.tag # "Active" THEN Panic
    ELSE CASE msg = "Add" ->
                 /\ state' = [state EXCEPT !.alter_patch_state = Loading]
                 /\ tasks' = Put(rest, NewTask("apply_patch", FirstPc("apply_patch"),
                                                state.path, NoRelease))
                 /\ dispatched' = [dispatched EXCEPT !.ops = @ + 1]
                 /\ UNCHANGED <<plugin_details_state, panicked, session>>
           [] msg = "Remove" ->
                 /\ state' = [state EXCEPT !.alter_patch_state = Loading]
                 /\ tasks' = Put(rest, NewTask("remove_patch", FirstPc("remove_patch"),
                                                state.path, NoRelease))
                 /\ dispatched' = [dispatched EXCEPT !.ops = @ + 1]
                 /\ UNCHANGED <<plugin_details_state, panicked, session>>
           [] msg = "Added" ->
                 /\ state' = PatchAdded(state, t.res)
                 /\ tasks' = rest
                 /\ UNCHANGED <<plugin_details_state, panicked, dispatched, session>>
           [] OTHER ->
                 \* Removed
                 /\ state' = IF t.res.ok
                             THEN [state EXCEPT !.alter_patch_state = Alter("Success", ""),
                                                !.patched = FALSE]
                             ELSE [state EXCEPT !.alter_patch_state = Alter("Error", t.res.err)]
                 /\ tasks' = rest
                 /\ UNCHANGED <<plugin_details_state, panicked, dispatched, session>>


\* PluginMessage::Removed(Err(..)) does not assign state.plugin
RemovedErrPluginFlag(flag) == flag

\* update_plugin: choice is the ReleaseType of SelectType
update_plugin(msg, t, choice, rest) ==
    IF state.tag # "Active" THEN Panic
    ELSE CASE msg = "Add" ->
                 IF plugin_details_state.tag # "Ready" THEN Panic
                 ELSE /\ state' = [state EXCEPT !.alter_plugin_state = Loading]
                      /\ tasks' = Put(rest, NewTask("apply_plugin", FirstPc("apply_plugin"), state.path,
                                     plugin_details_state.selected[1].release))
                      /\ dispatched' = [dispatched EXCEPT !.ops = @ + 1]
                      /\ UNCHANGED <<plugin_details_state, panicked, session>>
           [] msg = "Remove" ->
                 /\ state' = [state EXCEPT !.alter_plugin_state = Loading]
                 /\ tasks' = Put(rest, NewTask("remove_plugin", FirstPc("remove_plugin"),
                                                state.path, NoRelease))
                 /\ dispatched' = [dispatched EXCEPT !.ops = @ + 1]
                 /\ UNCHANGED <<plugin_details_state, panicked, session>>
           [] msg = "Added" ->
                 /\ state' = IF t.res.ok
                             THEN [state EXCEPT !.alter_plugin_state = Alter("Success", ""),
                                                !.plugin = TRUE]
                             ELSE [state EXCEPT !.alter_plugin_state = Alter("Error", t.res.err)]
                 /\ tasks' = rest
                 /\ UNCHANGED <<plugin_details_state, panicked, dispatched, session>>
           [] msg = "Removed" ->
                 /\ state' = IF t.res.ok
                             THEN [state EXCEPT !.alter_plugin_state = Alter("Success", ""),
                                                !.plugin = FALSE]
                             ELSE [state EXCEPT !.alter_plugin_state = Alter("Error", t.res.err),
                                                !.plugin = RemovedErrPluginFlag(@)]
                 /\ tasks' = rest
                 /\ UNCHANGED <<plugin_details_state, panicked, dispatched, session>>
           [] OTHER ->
                 \* SelectType
                 /\ plugin_details_state' =
                        IF plugin_details_state.tag = "Ready"
                        THEN [plugin_details_state EXCEPT !.selected = <<choice>>]
                        ELSE plugin_details_state
                 /\ tasks' = rest
                 /\ UNCHANGED <<state, panicked, dispatched, session>>

\* update_plugin_details
update_plugin_details(t, rest) ==
    /\ plugin_details_state' =
            IF t.res.ok THEN DetailsReady(t.options, t.selected[1]) ELSE DetailsError(t.res.err)
    /\ tasks' = rest
    /\ UNCHANGED <<state, panicked, dispatched, session>>

\* ---- user events: a press of a widget the current view shows ----

\* the "Choose game path" button of view_initial
PressChooseGamePath ==
    /\ ~panicked
    /\ state.tag = "Initial"
    /\ dispatched.ops + dispatched.picks < MaxTasks
    /\ update_game("PickGamePath", NewTask("", "", "", NoRelease), tasks)
    /\ UNCHANGED Env

\* the "Back" button of view_active
PressBack ==
    /\ ~panicked
    /\ state.tag = "Active"
    /\ update_game("ClearGamePath", NewTask("", "", "", NoRelease), tasks)
    /\ UNCHANGED Env

\* "Apply Patch", or "Retry" of view_patch_install_error
PressApplyPatch ==
    /\ ~panicked
    /\ state.tag = "Active"
    /\ "Add" \in view_patch_section(state)
    /\ dispatched.ops + dispatched.picks < MaxTasks
    /\ update_patch("Add", NewTask("", "", "", NoRelease), tasks)
    /\ UNCHANGED Env

\* "Remove Patch", or "Retry" of view_patch_uninstall_error
PressRemovePatch ==
    /\ ~panicked
    /\ state.tag = "Active"
    /\ "Remove" \in view_patch_section(state)
    /\ dispatched.ops + dispatched.picks < MaxTasks
    /\ update_patch("Remove", NewTask("", "", "", NoRelease), tasks)
    /\ UNCHANGED Env

\* "Add Plugin", or "Retry" of view_plugin_install_error
PressAddPlugin ==
    /\ ~panicked
    /\ state.tag = "Active"
    /\ "Add" \in view_plugin_section(state, plugin_details_state)
    /\ dispatched.ops + dispatched.picks < MaxTasks
    /\ update_plugin("Add", NewTask("", "", "", NoRelease), NoRelease, tasks)
    /\ UNCHANGED Env

\* "Remove Plugin", or "Retry" of view_plugin_uninstall_error
PressRemovePlugin ==
    /\ ~panicked
    /\ state.tag = "Active"
    /\ "Remove" \in view_plugin_section(state, plugin_details_state)
    /\ dispatched.ops + dispatched.picks < MaxTasks
    /\ update_plugin("Remove", NewTask("", "", "", NoRelease), NoRelease, tasks)
    /\ UNCHANGED Env

\* an option of the combo box of view_add_plugin
SelectType ==
    /\ ~panicked
    /\ state.tag = "Active"
    /\ "SelectType" \in view_plugin_section(state, plugin_details_state)
    /\ \E i \in 1..Len(plugin_details_state.options) :
          /\ plugin_details_state.selected # <<plugin_details_state.options[i]>>
          /\ update_plugin("SelectType", NewTask("", "", "", NoRelease),
                           plugin_details_state.options[i], tasks)
    /\ UNCHANGED Env

\* ---- tasks: one file system or network call per step ----

\* a step of an operation of one of these kinds
OperationStepOf(kinds) ==
    /\ ~panicked
    /\ \E t \in BagToSet(tasks), io \in IO :
          /\ t.kind \in kinds
          /\ t.pc # "done"
          /\ LET r == OpStep(t.kind, t.pc, t.bytes, t.release, fs[t.path], io)
             IN  /\ fs' = [fs EXCEPT ![t.path] = r.ds]
                 /\ tasks' = Advance(t, [t EXCEPT !.pc = r.pc, !.bytes = r.bytes, !.res = r.res])
    /\ UNCHANGED <<state, plugin_details_state, panicked, dispatched, session, github, call>>

\* a step of apply_patch, remove_patch, apply_plugin or remove_plugin
OperationStep == OperationStepOf(DomainKinds)

\* read_game_state on the folder of the picked file: is_patched(parent), then
\* plugin_path.exists() && plugin_path.is_file()
read_game_state(t, ds, io) ==
    LET r == is_patched_step("hash", ds, io)
    IN  IF r.res.ok
        THEN [t EXCEPT !.pc = "done", !.res = Ok(TRUE), !.patched = r.res.val,
                       !.plugin = Exists(ds, "plugin")]
        ELSE [t EXCEPT !.pc = "done", !.res = Err("failed to check game patched state")]

\* pick_game_state: the native dialog returns a file of a game folder, whose
\* state is then read; or it returns nothing (cancelled); or it fails
PickGameState ==
    /\ ~panicked
    /\ \E t \in BagToSet(tasks) :
          /\ t.kind = "pick_game_state" /\ t.pc = "dialog"
          /\ \/ \E d \in Dirs, io \in ReadIO :
                   tasks' = Advance(t, read_game_state([t EXCEPT !.path = d], fs[d], io))
             \/ tasks' = Advance(t, [t EXCEPT !.pc = "done", !.res = Ok(FALSE)])
             \/ tasks' = Advance(t, [t EXCEPT !.pc = "done", !.res = Err("failed to pick file")])
    /\ UNCHANGED <<state, plugin_details_state, panicked, dispatched, session, Env>>

\* get_plugin_details, its options and selected option, from the two answers
get_plugin_details(release, beta_release) ==
    LET options == <<ReleaseType("Stable", release)>> \o
                   (IF beta_release = <<>> THEN <<>>
                    ELSE <<ReleaseType("Beta", beta_release[1])>>)
    IN  [options |-> options, selected |-> <<options[1]>>]

BothRequestsOkMutant(io1, io2) == io1 = "ok"

\* get_latest_plugin_release().await? and get_latest_beta_plugin_release().await?:
\* get_plugin_details goes on only if neither request failed
BothRequestsOk(io1, io2) == io1 = "ok" /\ io2 = "ok"

\* the task of plugin_details_task, with these outcomes of its two requests
FetchPluginDetailsWith(io1, io2) ==
    /\ ~panicked
    /\ \E t \in BagToSet(tasks) :
          /\ t.kind = "get_plugin_details" /\ t.pc = "fetch"
          /\ LET details ==
                    get_plugin_details(github.latest, get_latest_beta_plugin_release(github.list))
             IN  tasks' = Advance(t, IF BothRequestsOk(io1, io2)
                      THEN [t EXCEPT !.pc = "done", !.res = Ok(TRUE),
                                     !.options = details.options,
                                     !.selected = details.selected]
                      ELSE [t EXCEPT !.pc = "done",
                                     !.res = Err("failed finding latest plugin client version")])
    /\ UNCHANGED <<state, plugin_details_state, panicked, dispatched, session, Env>>

\* the task of plugin_details_task: get_latest_plugin_release().await?, then
\* get_latest_beta_plugin_release().await?, then the options
FetchPluginDetails ==
    \E io1 \in ReadIO, io2 \in ReadIO : FetchPluginDetailsWith(io1, io2)

\* ---- results: the message of a finished task reaches update ----

\* PatchMessage::Added / PatchMessage::Removed
DeliverPatchResult ==
    /\ ~panicked
    /\ \E t \in BagToSet(tasks) :
          /\ t.kind \in PatchKinds /\ t.pc = "done"
          /\ update_patch(IF t.kind = "apply_patch" THEN "Added" ELSE "Removed",
                          t, Take(t))
    /\ UNCHANGED Env

\* PluginMessage::Added / PluginMessage::Removed
DeliverPluginResult ==
    /\ ~panicked
    /\ \E t \in BagToSet(tasks) :
          /\ t.kind \in PluginKinds /\ t.pc = "done"
          /\ update_plugin(IF t.kind = "apply_plugin" THEN "Added" ELSE "Removed",
                           t, NoRelease, Take(t))
    /\ UNCHANGED Env

\* GameMessage::PickedGameResult
DeliverPickedGameResult ==
    /\ ~panicked
    /\ \E t \in BagToSet(tasks) :
          /\ t.kind = "pick_game_state" /\ t.pc = "done"
          /\ update_game("PickedGameResult", t, Take(t))
    /\ UNCHANGED Env

\* PluginDetailsMessage::Loaded
DeliverLoaded ==
    /\ ~panicked
    /\ \E t \in BagToSet(tasks) :
          /\ t.kind = "get_plugin_details" /\ t.pc = "done"
          /\ update_plugin_details(t, Take(t))
    /\ UNCHANGED Env

Next ==
    \/ PressChooseGamePath
    \/ PressBack
    \/ PressApplyPatch
    \/ PressRemovePatch
    \/ PressAddPlugin
    \/ PressRemovePlugin
    \/ SelectType
    \/ OperationStep
    \/ PickGameState
    \/ FetchPluginDetails
    \/ DeliverPatchResult
    \/ DeliverPluginResult
    \/ DeliverPickedGameResult
    \/ DeliverLoaded

Spec == Init /\ [][Next]_vars

(***************************************************************************)
(* Properties                                                              *)
(***************************************************************************)
\* the domain operations in flight: dispatched, result message not delivered
InFlight(kinds) == {t \in BagToSet(tasks) : t.kind \in kinds}
InFlightCount(kinds) == BagCardinality([t \in InFlight(kinds) |-> tasks[t]])

\* C1: the update function never panics, whatever the user presses and in
\* whatever order the results of the tasks arrive.
C1_NeverPanics == ~panicked

Made(i, op, target) ==
    /\ i \in 1..Len(call.log)
    /\ call.log[i].op = op
    /\ call.log[i].target = target

\* C3: when apply_patch returned Ok, is_patched called next returns true, and
\* when remove_patch returned Ok, is_patched called next returns false (an
\* error only if the read of the file itself fails), whatever the directory
\* held before.
C3_CheckAfterApplyAndRemove ==
    call.op = "is_patched" /\ call.prev.ok =>
        /\ call.prev.op = "apply_patch" =>
              IF call.log[1].io = "ok" THEN call.res = Ok(TRUE) ELSE ~call.res.ok
        /\ call.prev.op = "remove_patch" =>
              IF call.log[1].io = "ok" THEN call.res = Ok(FALSE) ELSE ~call.res.ok

\* is_patched answered false right after a remove_patch that returned Ok
C3_Witness ==
    /\ call.op = "is_patched"
    /\ call.prev = [op |-> "remove_patch", ok |-> TRUE]
    /\ call.res = Ok(FALSE)

\* C4: is_patched returns false exactly when the digest of binkw32.dll is the
\* reference hash and true for any other content, returns an error when the
\* file is absent or cannot be read, and leaves the directory as it was.
C4_IsPatched ==
    call.op = "is_patched" =>
        /\ fs[FileDir] = call.before
        /\ call.res.ok <=> (call.before.binkw32 # Absent /\ call.log[1].io = "ok")
        /\ call.res.ok =>
              (call.res.val = FALSE <=> Sha256(call.before.binkw32) = OFFICIAL_BINKW32_HASH)

\* is_patched answered true for a binkw32.dll that is neither embedded dll
C4_Witness ==
    /\ call.op = "is_patched"
    /\ call.before.binkw32 = OtherDll
    /\ call.res = Ok(TRUE)

\* C5 (as claimed): after apply_patch returned Ok, binkw23.dll holds what
\* binkw32.dll held before the call and binkw32.dll holds the patched bytes.
C5_BackupHoldsPriorContent ==
    call.op = "apply_patch" /\ call.res.ok /\ call.before.binkw32 # Absent =>
        /\ fs[FileDir].binkw23 = call.before.binkw32
        /\ fs[FileDir].binkw32 = BINK_PATCHED

\* C5 (amended): after apply_patch returned Ok, binkw32.dll holds the embedded
\* patched bytes and binkw23.dll holds the embedded unpatched bytes, which is
\* what binkw32.dll held before only if that was the official dll.
C5_BackupHoldsEmbeddedUnpatched ==
    call.op = "apply_patch" /\ call.res.ok =>
        /\ fs[FileDir].binkw32 = BINK_PATCHED
        /\ fs[FileDir].binkw23 = BINK_UNPATCHED
        /\ fs[FileDir].binkw23 = call.before.binkw32 <=> call.before.binkw32 = BINK_UNPATCHED

\* apply_patch returned Ok on a directory whose binkw32.dll was some other dll
C5_Witness ==
    /\ call.op = "apply_patch"
    /\ call.res.ok
    /\ call.before.binkw32 = OtherDll
    /\ fs[FileDir].binkw23 = BINK_UNPATCHED

\* C6: after remove_patch returned Ok, binkw32.dll holds the embedded
\* unpatched bytes and binkw23.dll does not exist; a binkw23.dll that was
\* already absent is not an error; and binkw23.dll is deleted only after the
\* unpatched bytes were written.
C6_RemovePatch ==
    call.op = "remove_patch" =>
        /\ call.res.ok =>
              /\ fs[FileDir].binkw32 = BINK_UNPATCHED
              /\ fs[FileDir].binkw23 = Absent
        /\ call.before.binkw23 = Absent /\ call.log[1].io = "ok" => call.res.ok
        /\ Made(1, "write", "binkw32") /\ call.log[1].data = BINK_UNPATCHED
        /\ \A i \in 1..Len(call.log) :
              Made(i, "remove", "binkw23") => i > 1 /\ call.log[1].io = "ok"

\* remove_patch returned Ok on a directory that had no binkw23.dll
C6_Witness ==
    /\ call.op = "remove_patch"
    /\ call.res.ok
    /\ call.before.binkw23 = Absent
    /\ call.before.binkw32 = BINK_PATCHED

\* C7 (as claimed): apply_patch attempts the write to binkw23.dll in every
\* call, also when the write to binkw32.dll failed.
C7_BothWritesAttempted ==
    call.op = "apply_patch" => \E i \in 1..Len(call.log) : Made(i, "write", "binkw23")

\* C7 (amended): apply_patch attempts the write to binkw23.dll exactly when the
\* write to binkw32.dll succeeded; when that first write fails it returns
\* "failed to write patch" at once and binkw23.dll is not touched.
C7_BackupWrittenOnlyAfterPatchWritten ==
    call.op = "apply_patch" =>
        /\ Made(1, "write", "binkw32")
        /\ (\E i \in 1..Len(call.log) : Made(i, "write", "binkw23")) <=> call.log[1].io = "ok"
        /\ call.log[1].io # "ok" =>
              /\ call.res = Err("failed to write patch")
              /\ Len(call.log) = 1
              /\ fs[FileDir].binkw23 = call.before.binkw23

\* apply_patch whose first write failed: one call made, no backup written
C7_Witness ==
    /\ call.op = "apply_patch"
    /\ call.log[1].io = "err"
    /\ Len(call.log) = 1
    /\ call.res = Err("failed to write patch")

\* the positions of the assets named exactly ASSET_NAME
ExactMatches(assets) == {i \in 1..Len(assets) : assets[i].name = "pocket-relay-plugin.asi"}
FirstExactMatch(assets) ==
    assets[CHOOSE i \in ExactMatches(assets) : \A j \in ExactMatches(assets) : i <= j]

Prereleases(list) == {i \in 1..Len(list) : list[i].prerelease}

\* C9: get_latest_beta_plugin_release returns None exactly when the list holds
\* no prerelease; otherwise it returns a prerelease of the list whose
\* published_at is not below that of any prerelease of the list, and never a
\* release that is not a prerelease.
C9_LatestBeta ==
    call.op = "get_latest_beta_plugin_release" =>
        /\ call.found = <<>> <=> Prereleases(call.list) = {}
        /\ call.found # <<>> =>
              /\ call.found[1].prerelease
              /\ \E i \in Prereleases(call.list) : call.list[i] = call.found[1]
              /\ \A j \in Prereleases(call.list) :
                    StrCmp(call.found[1].published_at, call.list[j].published_at) # "lt"

\* two prereleases and a later release that is no prerelease: the newer
\* prerelease is returned
C9_Witness ==
    /\ call.op = "get_latest_beta_plugin_release"
    /\ call.list = << Release("v1", <<1>>, TRUE, <<>>),
                      Release("v2", <<1, 2>>, TRUE, <<>>),
                      Release("v1", <<2, 1>>, FALSE, <<>>) >>
    /\ call.found = << Release("v2", <<1, 2>>, TRUE, <<>>) >>

\* this step is the one call of a remove_plugin task t, which ends as t2
RemovePluginRan(t, t2) ==
    /\ t.kind = "remove_plugin" /\ t.pc = "remove"
    /\ t2 = [t EXCEPT !.pc = "done", !.res = t2.res]
    /\ tasks' = Advance(t, t2)

\* this step is update_plugin taking the message Removed(Err(..)) of task t
\* in an Active state
RemovedErrTaken(t) ==
    /\ t.kind = "remove_plugin" /\ t.pc = "done" /\ ~t.res.ok
    /\ state.tag = "Active"
    /\ tasks' = Take(t)
    /\ ~panicked'

\* this step is update taking the message Removed(Err(..)) of task t, whatever
\* state the application is in, after remove_plugin found no plugin file (a
\* panic drops the tasks, so t is the only one)
RemovedErrDelivered(t) ==
    /\ t.kind = "remove_plugin" /\ t.pc = "done" /\ ~t.res.ok
    /\ fs[t.path].plugin = Absent
    /\ ~panicked
    /\ tasks' = Take(t)
    /\ panicked' => state.tag # "Active"

\* C10 (as claimed): whenever remove_plugin failed on an absent plugin file
\* and its message Removed(Err(..)) is delivered, the application keeps the
\* plugin flag as it is and shows the plugin section in the Error state.
C10_RemovedErrShowsError ==
    [][ \A t \in BagToSet(tasks) :
           RemovedErrDelivered(t) =>
              /\ ~panicked'
              /\ state'.tag = "Active"
              /\ state'.alter_plugin_state = Alter("Error", t.res.err)
              /\ state'.plugin = state.plugin
      ]_vars

\* C10 (while the application is in the Active state): remove_plugin deletes
\* the plugin file of the game directory and nothing else; when the file is
\* absent it returns an error and leaves the directory as it was; and on
\* Removed(Err) update_plugin leaves the plugin flag as it is and puts the
\* plugin section in the Error state.
C10_RemovePlugin ==
    [][ /\ \A t \in BagToSet(tasks), t2 \in BagToSet(tasks') :
              RemovePluginRan(t, t2) =>
                 /\ \A d \in Dirs \ {t.path} : fs'[d] = fs[d]
                 /\ fs[t.path].plugin = Absent => ~t2.res.ok /\ fs' = fs
                 /\ t2.res.ok => fs'[t.path] = [fs[t.path] EXCEPT !.plugin = Absent]
                 /\ ~t2.res.ok => fs' = fs
                 /\ fs'[t.path].binkw32 = fs[t.path].binkw32
                 /\ fs'[t.path].binkw23 = fs[t.path].binkw23
        /\ \A t \in BagToSet(tasks) :
              RemovedErrTaken(t) =>
                 /\ state'.plugin = state.plugin
                 /\ state'.alter_plugin_state = Alter("Error", t.res.err)
      ]_vars

\* the plugin section shows the failed removal of a plugin file that is not
\* there, with the plugin flag still set
C10_Witness ==
    /\ state.tag = "Active"
    /\ state.plugin
    /\ state.alter_plugin_state = Alter("Error", "remove_file failed")
    /\ fs[state.path].plugin = Absent

\* a step of the patch section: one of its messages, or a step of one of its
\* operations
PatchStep ==
    PressApplyPatch \/ PressRemovePatch \/ DeliverPatchResult \/ OperationStepOf(PatchKinds)

\* a step of the plugin section
PluginStep ==
    \/ PressAddPlugin \/ PressRemovePlugin \/ SelectType \/ DeliverPluginResult
    \/ OperationStepOf(PluginKinds)

\* the plugin flag, the plugin alter-state, the release details and
\* every plugin file are as they were
PluginSideUnchanged ==
    /\ state'.plugin = state.plugin
    /\ state'.alter_plugin_state = state.alter_plugin_state
    /\ plugin_details_state' = plugin_details_state
    /\ \A d \in Dirs : fs'[d].plugin = fs[d].plugin

\* the patched flag, the patch alter-state and both dll files are as they were
PatchSideUnchanged ==
    /\ state'.patched = state.patched
    /\ state'.alter_patch_state = state.alter_patch_state
    /\ \A d \in Dirs : /\ fs'[d].binkw32 = fs[d].binkw32
                        /\ fs'[d].binkw23 = fs[d].binkw23

\* C11: a patch message or a step of a patch operation leaves the plugin flag,
\* the plugin alter-state, the release details and every plugin file as they
\* are; a plugin message or a step of a plugin operation leaves the patched
\* flag, the patch alter-state and every binkw32.dll and binkw23.dll as they
\* are.
C11_SectionsDoNotInteract ==
    [][ /\ PluginSideUnchanged \/ ~PatchStep
        /\ PatchSideUnchanged \/ ~PluginStep ]_vars

\* the patch was added while a plugin operation is still in flight
C11_Witness ==
    /\ state.tag = "Active"
    /\ state.alter_patch_state.tag = "Success"
    /\ state.patched
    /\ state.alter_plugin_state.tag = "Loading"
    /\ InFlightCount(PluginKinds) = 1

\* C12: an operation in flight is never dropped: in every step each dispatched
\* operation either stays as it is, or makes a step of its own, or has
\* finished and its result message is the one update takes in this step.
C12_RunsUntilDelivered ==
    [][ \A t \in InFlight(DomainKinds) :
           \/ CopiesIn(t, tasks') >= CopiesIn(t, tasks)
           \/ OperationStepOf({t.kind})
           \/ /\ t.pc = "done"
              /\ \/ tasks' = Take(t) /\ ~panicked'
                 \/ /\ panicked' /\ state.tag # "Active"
                    /\ InFlight(DomainKinds) = {t} /\ tasks[t] = 1
      ]_vars

\* the view of application state s with release details d offers a button
\* whose message dispatches an operation of this kind; no widget dispatches
\* get_plugin_details
RetryOffered(kind, s, d) ==
    CASE kind = "pick_game_state" -> s.tag = "Initial"
      [] kind = "apply_patch" -> s.tag = "Active" /\ "Add" \in view_patch_section(s)
      [] kind = "remove_patch" -> s.tag = "Active" /\ "Remove" \in view_patch_section(s)
      [] kind = "apply_plugin" -> s.tag = "Active" /\ "Add" \in view_plugin_section(s, d)
      [] kind = "remove_plugin" -> s.tag = "Active" /\ "Remove" \in view_plugin_section(s, d)
      [] OTHER -> FALSE

\* the tasks whose result message is ready to be taken by update
Finished == {t \in BagToSet(tasks) : t.pc = "done"}

\* this step is update taking the result message of the finished task t (if
\* update panics on it, the tasks are dropped: t is then the only finished one)
Delivered(t) ==
    /\ t \in Finished
    /\ ~panicked
    /\ \/ tasks' = Take(t) /\ ~panicked'
       \/ /\ panicked' /\ Finished = {t}
          /\ t.kind \in DomainKinds /\ state.tag # "Active"

\* this step hands a new future to the runtime
Dispatches ==
    \/ dispatched' # dispatched
    \/ \E t \in BagToSet(tasks') :
          /\ t.pc = (CASE t.kind = "get_plugin_details" -> "fetch"
                        [] t.kind = "pick_game_state" -> "dialog"
                        [] OTHER -> FirstPc(t.kind))
          /\ CopiesIn(t, tasks') > CopiesIn(t, tasks)

\* C13: after the failure of any operation (game pick, patch apply or remove,
\* plugin install or remove, loading of the release details) the view offers
\* a button that dispatches that operation again; and an operation is only
\* ever dispatched by a user event.
C13_RetryOffered ==
    [][ /\ \A t \in Finished :
              Delivered(t) /\ ~t.res.ok =>
                 ~panicked' /\ RetryOffered(t.kind, state', plugin_details_state')
        /\ Dispatches =>
              \/ PressChooseGamePath \/ PressApplyPatch \/ PressRemovePatch
              \/ PressAddPlugin \/ PressRemovePlugin
      ]_vars

\* the operations of these kinds in flight on game directory d
InFlightOn(kinds, d) ==
    BagCardinality([t \in {u \in InFlight(kinds) : u.path = d} |-> tasks[t]])

\* C14: on each game directory at most one patch operation and at most one
\* plugin operation is in flight, in every reachable state.
C14_NoReentryPerDirectory ==
    \A d \in Dirs : InFlightOn(PatchKinds, d) <= 1 /\ InFlightOn(PluginKinds, d) <= 1

\* C15: in every Active state with no patch operation in flight, the patched
\* flag is what is_patched returns for the selected game directory.
C15_PatchedFlagReflectsDisk ==
    state.tag = "Active" /\ InFlight(PatchKinds) = {} =>
        is_patched_step("hash", fs[state.path], "ok").res = Ok(state.patched)

\* C16: the result message of an operation that was dispatched from another
\* Active state (an earlier game selection) than the current one changes
\* neither the flags nor the alter-states of the current one.
C16_ResultAffectsOwnSessionOnly ==
    [][ \A t \in Finished :
           /\ Delivered(t)
           /\ t.kind \in DomainKinds
           /\ state.tag = "Active"
           /\ t.session # state.session
           => /\ state'.patched = state.patched
              /\ state'.plugin = state.plugin
              /\ state'.alter_patch_state = state.alter_patch_state
              /\ state'.alter_plugin_state = state.alter_plugin_state
      ]_vars

\* while a section of the Active state s is Loading, the operation it
\* dispatched is in flight, and it is the one the flag announces
LoadingMatches(s, bag) ==
    s.tag = "Active" =>
        /\ s.alter_patch_state.tag = "Loading" =>
              \E t \in BagToSet(bag) :
                 /\ t.session = s.session /\ t.path = s.path
                 /\ t.kind = IF s.patched THEN "remove_patch" ELSE "apply_patch"
        /\ s.alter_plugin_state.tag = "Loading" =>
              \E t \in BagToSet(bag) :
                 /\ t.session = s.session /\ t.path = s.path
                 /\ t.kind = IF s.plugin THEN "remove_plugin" ELSE "apply_plugin"

\* C17: while a section is Loading, the operation in flight is an apply /
\* install when the flag is false and a remove when it is true; and when the
\* failure of an operation puts a section in the Error state, its Retry
\* button dispatches an operation of the kind that failed.
C17_KindShownMatches ==
    [][ /\ LoadingMatches(state', tasks')
        /\ \A t \in Finished :
              /\ Delivered(t) /\ t.kind \in DomainKinds /\ ~t.res.ok
              /\ state'.tag = "Active" /\ ~panicked'
              => RetryOffered(t.kind, state', plugin_details_state')
      ]_vars

\* the Loading part of C17 alone
C17_LoadingMatches == LoadingMatches(state, tasks)

\* C18: PluginMessage::Add is only processed while the release details are
\* Ready; the release details change only by the message Loaded and, once
\* Ready, by SelectType; and once Ready they stay Ready.
C18_AddOnlyWhenReady ==
    [][ /\ PressAddPlugin => plugin_details_state.tag = "Ready"
        /\ plugin_details_state' # plugin_details_state =>
              \/ DeliverLoaded /\ plugin_details_state.tag = "Loading"
              \/ SelectType /\ plugin_details_state.tag = "Ready"
        /\ plugin_details_state.tag = "Ready" => plugin_details_state'.tag = "Ready"
      ]_vars

\* the parts of C18 about how the release details change
C18_DetailsChangeOnlyByLoaded ==
    [][ /\ plugin_details_state' # plugin_details_state =>
              \/ DeliverLoaded /\ plugin_details_state.tag = "Loading"
              \/ SelectType /\ plugin_details_state.tag = "Ready"
        /\ plugin_details_state.tag = "Ready" => plugin_details_state'.tag = "Ready"
      ]_vars

\* release details d are what get_plugin_details builds from the answers of
\* the API: Stable first, then Beta exactly when the list holds a prerelease,
\* and the selected option one of those offered
DetailsWellFormed(d) ==
    d.tag = "Ready" =>
        /\ d.options[1] = ReleaseType("Stable", github.latest)
        /\ Len(d.options) = IF Prereleases(github.list) = {} THEN 1 ELSE 2
        /\ Len(d.options) = 2 =>
              /\ d.options[2].type = "Beta"
              /\ d.options[2].release.prerelease
              /\ \E i \in 1..Len(github.list) : github.list[i] = d.options[2].release
        /\ \E i \in 1..Len(d.options) : d.selected = <<d.options[i]>>

\* C19: the load of the release details succeeds only if both requests
\* succeeded, and Loaded then makes the details Ready with the options Stable
\* and, exactly when the list holds a prerelease, Beta, and with Stable
\* selected; if a request failed, Loaded makes the details Error; the selected
\* option is always one of the options; and the release Add installs is the
\* one selected when Add is processed.
C19_PluginDetails ==
    [][ /\ \A t \in BagToSet(tasks') :
              t.kind = "get_plugin_details" =>
                 \A io1 \in ReadIO, io2 \in ReadIO :
                    FetchPluginDetailsWith(io1, io2) =>
                       (t.res.ok <=> io1 = "ok" /\ io2 = "ok")
        /\ \A t \in Finished :
              t.kind = "get_plugin_details" /\ Delivered(t) =>
                 IF t.res.ok
                 THEN /\ plugin_details_state'.tag = "Ready"
                      /\ plugin_details_state'.selected =
                            <<ReleaseType("Stable", github.latest)>>
                 ELSE plugin_details_state'.tag = "Error"
        /\ DetailsWellFormed(plugin_details_state')
        /\ PressAddPlugin /\ ~panicked' =>
              \E t \in BagToSet(tasks') :
                 /\ t.kind = "apply_plugin" /\ t.pc = FirstPc("apply_plugin")
                 /\ t.release = plugin_details_state.selected[1].release
                 /\ tasks' = Put(tasks, t)
      ]_vars

\* Beta was selected and Add pressed: the install of the prerelease is in
\* flight
C19_Witness ==
    /\ plugin_details_state.tag = "Ready"
    /\ Len(plugin_details_state.options) = 2
    /\ plugin_details_state.selected[1].type = "Beta"
    /\ \E t \in InFlight({"apply_plugin"}) :
          /\ t.release = plugin_details_state.selected[1].release
          /\ t.release.prerelease

\* this step is update_game taking the message PickedGameResult of task t
PickDelivered(t) ==
    /\ t \in Finished /\ t.kind = "pick_game_state"
    /\ ~panicked /\ ~panicked'
    /\ tasks' = Take(t)

\* this step makes the application enter an Active state
EntersActive ==
    /\ state'.tag = "Active"
    /\ state.tag # "Active" \/ state'.session # state.session

\* this step is pick_game_state reading the game directory it ends with
GameStateRead(t) ==
    /\ t.kind = "pick_game_state" /\ t.pc = "done" /\ t.res = Ok(TRUE)
    /\ CopiesIn(t, tasks') > CopiesIn(t, tasks)

\* C20: the application enters an Active state only by a PickedGameResult
\* Ok(Some(..)), whose flags are those read from a directory whose binkw32.dll
\* could be hashed, and with both alter-states Initial; a failed pick sets the
\* error of an Initial state and leaves any other state as it is; a cancelled
\* pick leaves an Active state as it is; Back leads to the Initial state with
\* no error.
C20_EnteringActive ==
    [][ /\ EntersActive =>
              \E t \in Finished :
                 /\ PickDelivered(t) /\ t.res = Ok(TRUE)
                 /\ state' = AppActive(t.patched, t.plugin, t.path,
                                        Alter("Initial", ""), Alter("Initial", ""),
                                        state'.session)
        /\ \A t \in BagToSet(tasks') :
              GameStateRead(t) =>
                 /\ is_patched_step("hash", fs[t.path], "ok").res = Ok(t.patched)
                 /\ t.plugin = Exists(fs[t.path], "plugin")
        /\ \A t \in Finished :
              PickDelivered(t) /\ ~t.res.ok =>
                 state' = IF state.tag = "Initial"
                          THEN [state EXCEPT !.pick_file_error = t.res.err]
                          ELSE state
        /\ \A t \in Finished :
              PickDelivered(t) /\ t.res = Ok(FALSE) /\ state.tag = "Active" =>
                 state' = state
        /\ PressBack => state' = AppInitial("")
      ]_vars

\* C20 without its sentence on a cancelled pick
C20_EnteringActiveOtherParts ==
    [][ /\ EntersActive =>
              \E t \in Finished :
                 /\ PickDelivered(t) /\ t.res = Ok(TRUE)
                 /\ state' = AppActive(t.patched, t.plugin, t.path,
                                        Alter("Initial", ""), Alter("Initial", ""),
                                        state'.session)
        /\ \A t \in BagToSet(tasks') :
              GameStateRead(t) =>
                 /\ is_patched_step("hash", fs[t.path], "ok").res = Ok(t.patched)
                 /\ t.plugin = Exists(fs[t.path], "plugin")
        /\ \A t \in Finished :
              PickDelivered(t) /\ ~t.res.ok =>
                 state' = IF state.tag = "Initial"
                          THEN [state EXCEPT !.pick_file_error = t.res.err]
                          ELSE state
        /\ PressBack => state' = AppInitial("")
      ]_vars
====
